---------------------------- MODULE Spec2Model ----------------------------
(***************************************************************************)
(* A model of tortik_tests/runtests.py: the test harness of tortik.        *)
(*                                                                         *)
(* main() installs the warning filters, defines the command line options,  *)
(* registers two parse callbacks and hands over to tornado.testing.main,   *)
(* which parses the command line, runs the parse callbacks and then lets   *)
(* unittest load the suite named by all() and run it with                  *)
(* TornadoTextTestRunner.  The library calls the file makes (warnings,     *)
(* logging, tornado.options, unittest) are modelled by what they do to the *)
(* state the file owns.                                                    *)
(*                                                                         *)
(* Specifications:                                                         *)
(*   Spec        the whole of main(), from its first line to process exit  *)
(*   SpecPolicy  the warning filter list and the classification of events  *)
(*   SpecLog     the LogCounter under concurrent asynchronous operations   *)
(*   SpecSession loading, running and reporting one test session           *)
(***************************************************************************)
EXTENDS Integers, Sequences, FiniteSets, TLC

VARIABLES
    pc,               \* the position of main()
    error,            \* the exception that ended the process, or "none"
    filters,          \* warnings.filters, first entry consulted first
    registered,       \* history: the filter rules in the order they were registered
    lastWarning,      \* the warning issued last under the filter list as it is, with its action
    access_level,     \* the level of logger "tornado.access"
    defined,          \* tornado.options: the options defined, in order
    parse_callbacks,  \* tornado.options: the parse callbacks, in order
    argv,             \* the command line arguments not parsed yet
    argv0,            \* history: the whole command line
    options,          \* tornado.options: the value of each option
    fired,            \* history: the callbacks run, each with what it saw
    ioloop_conf,      \* what IOLoop.configure was called with, or Unconfigured
    monotonic_time,   \* tornado.platform.auto.monotonic_time: "clock" or "None"
    handler_filters,  \* the filters of logging.getLogger().handlers[0]
    log_counter,      \* the LogCounter: [warning_count, error_count], or "none"
    emitted,          \* history: the log records created, in order
    delivered,        \* the log records the handler wrote to its output
    inflight,         \* the logging calls each asynchronous operation has left
    loader,           \* what unittest's loader does with a name it cannot resolve
    resolves,         \* the test modules that exist
    loaded,           \* the names of TEST_MODULES the loader has taken
    suite,            \* the test cases loaded, in order
    ran,              \* history: what each executed test case did
    result,           \* the TestResult: errors, failures, skipped, testsRun
    stream            \* what the runner wrote to its stream

policyVars == <<filters, registered, lastWarning>>
optionVars == <<defined, parse_callbacks, argv, argv0, options, fired, ioloop_conf,
                monotonic_time>>
logVars == <<access_level, handler_filters, log_counter, emitted, delivered, inflight>>
sessionVars == <<loader, resolves, loaded, suite, ran, result, stream>>
vars == <<pc, error, policyVars, optionVars, logVars, sessionVars>>

None == "None"

-----------------------------------------------------------------------------
(* Strings.  A Python str is a TLA+ string; Chr(s, i) is s[i-1].           *)

Chr(s, i) == SubSeq(s, i, i)

\* The characters the model's strings use, in code point order.
CodePoints == "\n ,-.0123456789:@ABCDEFGHIJKLMNOPQRSTUVWXYZ_abcdefghijklmnopqrstuvwxyz"

Ord(c) == CHOOSE i \in 1..Len(CodePoints) : Chr(CodePoints, i) = c

UpperCase == "ABCDEFGHIJKLMNOPQRSTUVWXYZ"
LowerCase == "abcdefghijklmnopqrstuvwxyz"

\* str.lower() of one character.
Lower(c) ==
    IF \E i \in 1..Len(UpperCase) : Chr(UpperCase, i) = c
    THEN Chr(LowerCase, CHOOSE i \in 1..Len(UpperCase) : Chr(UpperCase, i) = c)
    ELSE c

-----------------------------------------------------------------------------
(* The warning filters (main, lines 74-129).                               *)

\* re.compile(p).match(s): whether pattern p, read from position i, matches
\* s from position j on; the match need not reach the end of s.  The
\* patterns of the file use literals, "\" escapes, "." and "*" only.
\* icase is re.I, which filterwarnings sets for the message pattern.
RECURSIVE ReMatch(_, _, _, _, _)
ReMatch(p, i, s, j, icase) ==
    IF i > Len(p) THEN TRUE
    ELSE LET esc == Chr(p, i) = "\\"
             w == IF esc THEN 2 ELSE 1
             lit == IF esc THEN Chr(p, i + 1) ELSE Chr(p, i)
             any == ~esc /\ Chr(p, i) = "."
             star == i + w <= Len(p) /\ Chr(p, i + w) = "*"
             ok(k) == /\ k <= Len(s)
                      /\ IF any THEN Chr(s, k) # "\n"
                         ELSE \/ lit = Chr(s, k)
                              \/ icase /\ Lower(lit) = Lower(Chr(s, k))
         IN IF star
            THEN \E n \in 0..(Len(s) - j + 1) :
                    /\ \A k \in j..(j + n - 1) : ok(k)
                    /\ ReMatch(p, i + w + 1, s, j + n, icase)
            ELSE ok(j) /\ ReMatch(p, i + w, s, j + 1, icase)

\* The builtin warning categories the model uses; each derives from Warning.
Categories == {"Warning", "UserWarning", "DeprecationWarning",
               "PendingDeprecationWarning", "ImportWarning", "BytesWarning",
               "ResourceWarning"}

\* issubclass(c, cat)
IsSubclass(c, cat) == c = cat \/ cat = "Warning"

\* filterwarnings(action, message, category, module): the entry it makes.
\* An argument left out is "" (message, module: no pattern) or Warning.
Rule(action, message, category, module) ==
    [action |-> action, message |-> message, category |-> category, module |-> module]

\* The filters the interpreter starts with (the comment of lines 76-78).
InterpreterFilters ==
    << Rule("ignore", "", "DeprecationWarning", ""),
       Rule("ignore", "", "ResourceWarning", "") >>

TornadoModules == "tornado\\..*"

\* The filterwarnings calls of main(), in program order.
RULES ==
    << Rule("error", "", "Warning", ""),
       Rule("ignore", "", "ImportWarning", ""),
       Rule("ignore", "", "DeprecationWarning", ""),
       Rule("error", "", "DeprecationWarning", TornadoModules),
       Rule("ignore", "gen.Task is deprecated", "DeprecationWarning", TornadoModules),
       Rule("ignore", "StackContext is deprecated", "DeprecationWarning", TornadoModules),
       Rule("ignore", "@asynchronous is deprecated", "DeprecationWarning", TornadoModules),
       Rule("ignore", "callback arguments are deprecated", "DeprecationWarning",
            TornadoModules),
       Rule("ignore", "", "PendingDeprecationWarning", ""),
       Rule("error", "", "PendingDeprecationWarning", TornadoModules),
       Rule("ignore", "Please use assert.* instead", "DeprecationWarning", ""),
       Rule("ignore", "Please use assert.* instead", "PendingDeprecationWarning", ""),
       Rule("ignore", "", "BytesWarning", "twisted\\..*") >>

\* list.remove(item): the list without the first entry equal to item.
RECURSIVE RemoveFirst(_, _)
RemoveFirst(fs, item) ==
    IF fs = <<>> THEN <<>>
    ELSE IF Head(fs) = item THEN Tail(fs)
    ELSE <<Head(fs)>> \o RemoveFirst(Tail(fs), item)

\* The same call with append=True: the entry goes to the back.
AddFilterAppend(fs, item) ==
    IF \E i \in 1..Len(fs) : fs[i] = item THEN fs ELSE Append(fs, item)

\* warnings._add_filter(*item, append=False), as filterwarnings calls it:
\* the entry goes to the front, an equal entry further back is removed.
AddFilter(fs, item) == <<item>> \o RemoveFirst(fs, item)

\* One entry against one event, as warn_explicit tests it.
Matches(rule, e) ==
    /\ IsSubclass(e.category, rule.category)
    /\ rule.message = "" \/ ReMatch(rule.message, 1, e.message, 1, TRUE)
    /\ rule.module = "" \/ ReMatch(rule.module, 1, e.module, 1, FALSE)

\* warnings.defaultaction
DefaultAction == "default"

\* warn_explicit: the action of the first entry of the list that matches,
\* the default action when the loop finds none.
RECURSIVE Classify(_, _)
Classify(fs, e) ==
    IF fs = <<>> THEN DefaultAction
    ELSE IF Matches(Head(fs), e) THEN Head(fs).action
    ELSE Classify(Tail(fs), e)

\* The filter list after the first n calls of main().
RECURSIVE FiltersAfter(_)
FiltersAfter(n) ==
    IF n = 0 THEN InterpreterFilters ELSE AddFilter(FiltersAfter(n - 1), RULES[n])

InstalledFilters == FiltersAfter(Len(RULES))

\* The warning events of the model: who warns, with what category and text.
EventModules == {"tornado.gen", "tornado", "tornadoweb", "twisted.internet",
                 "tortik.page"}
EventMessages == {"gen.Task is deprecated", "GEN.TASK IS DEPRECATED, use coroutines",
                  "genXTask is deprecated", "the gen.Task is deprecated",
                  "Please use assertEqual instead", "Please use assert",
                  "unclosed file"}
Events == [category : Categories, module : EventModules, message : EventMessages]


-----------------------------------------------------------------------------
(* The command line options (main, lines 133-173).                         *)

\* The define() calls of main(), in program order: the option, its default
\* and its callback.  An option defined with multiple=True and no default
\* starts as the empty list.
OPTIONS ==
    << [name |-> "httpclient", default |-> None, callback |-> "AsyncHTTPClient.configure"],
       [name |-> "httpserver", default |-> None, callback |-> "HTTPServer.configure"],
       [name |-> "ioloop", default |-> None, callback |-> None],
       [name |-> "ioloop_time_monotonic", default |-> FALSE, callback |-> None],
       [name |-> "resolver", default |-> None, callback |-> "Resolver.configure"],
       [name |-> "debug_gc", default |-> <<>>, callback |-> "gc.set_debug"],
       [name |-> "locale", default |-> None, callback |-> "locale.setlocale"] >>

\* Lines 173 and 176 the other way round.
PARSE_CALLBACKS_swapped == << "addFilter(log_counter)", "configure_ioloop" >>

\* The add_parse_callback calls of main(), in program order.
PARSE_CALLBACKS == << "configure_ioloop", "addFilter(log_counter)" >>

\* The longest command line of the model.
MaxArgs == 2

\* The arguments a command line of the model is made of: --name=value.
Flags ==
    { [name |-> "httpclient", value |-> "curl_httpclient"],
      [name |-> "httpserver", value |-> "httpserver"],
      [name |-> "ioloop", value |-> "EPollIOLoop"],
      [name |-> "ioloop_time_monotonic", value |-> TRUE],
      [name |-> "ioloop_time_monotonic", value |-> FALSE],
      [name |-> "resolver", value |-> "ThreadedResolver"],
      [name |-> "debug_gc", value |-> <<"DEBUG_STATS">>],
      [name |-> "locale", value |-> "C"] }

CommandLines == UNION { [1..n -> Flags] : n \in 0..MaxArgs }

Unconfigured == [configured |-> FALSE]

OptionOf(name) == CHOOSE i \in 1..Len(defined) : defined[i].name = name
OptionOfName(name) == CHOOSE i \in 1..Len(OPTIONS) : OPTIONS[i].name = name

\* The option values when no argument names an option.
DefaultOptions == [n \in {OPTIONS[i].name : i \in 1..Len(OPTIONS)} |->
                      OPTIONS[OptionOfName(n)].default]

\* configure_ioloop without the test of line 167.
configure_ioloop_no_check(opts, mt, conf) ==
    [ raised |-> FALSE,
      conf |-> IF opts["ioloop"] # None \/ opts["ioloop_time_monotonic"]
               THEN [configured |-> TRUE, impl |-> opts["ioloop"],
                     time_func |-> IF opts["ioloop_time_monotonic"] THEN mt ELSE "default"]
               ELSE conf ]

\* configure_ioloop reading the options as they were when it was defined.
configure_ioloop_stale(opts, mt, conf) ==
    IF DefaultOptions["ioloop_time_monotonic"] /\ mt = None
    THEN [raised |-> TRUE, conf |-> conf]
    ELSE [ raised |-> FALSE,
           conf |-> IF DefaultOptions["ioloop"] # None
                       \/ DefaultOptions["ioloop_time_monotonic"]
                    THEN [configured |-> TRUE, impl |-> DefaultOptions["ioloop"],
                          time_func |-> IF DefaultOptions["ioloop_time_monotonic"]
                                        THEN mt ELSE "default"]
                    ELSE conf ]

\* configure_ioloop() (lines 162-171) under option values opts, with mt the
\* platform's monotonic_time: whether it raises, and what IOLoop.configure
\* is called with, if it is called.
configure_ioloop(opts, mt, conf) ==
    IF opts["ioloop_time_monotonic"] /\ mt = None
    THEN [raised |-> TRUE, conf |-> conf]
    ELSE [ raised |-> FALSE,
           conf |-> IF opts["ioloop"] # None \/ opts["ioloop_time_monotonic"]
                    THEN [configured |-> TRUE, impl |-> opts["ioloop"],
                          time_func |-> IF opts["ioloop_time_monotonic"]
                                        THEN mt ELSE "default"]
                    ELSE conf ]

-----------------------------------------------------------------------------
(* The LogCounter (lines 54-67) and the logging calls that reach it.       *)

WARNING == 30
ERROR == 40
CRITICAL == 50

\* LogCounter.__init__
NewLogCounter == [warning_count |-> 0, error_count |-> 0]

\* Three slips of it: "greater than" for "at least", the two tests in the
\* other order, and a return value that depends on the level.
LogCounter_filter_strict(self, record) ==
    [ self |-> IF record.levelno > ERROR
               THEN [self EXCEPT !.error_count = @ + 1]
               ELSE IF record.levelno > WARNING
               THEN [self EXCEPT !.warning_count = @ + 1]
               ELSE self,
      rv |-> TRUE ]

LogCounter_filter_swapped(self, record) ==
    [ self |-> IF record.levelno >= WARNING
               THEN [self EXCEPT !.warning_count = @ + 1]
               ELSE IF record.levelno >= ERROR
               THEN [self EXCEPT !.error_count = @ + 1]
               ELSE self,
      rv |-> TRUE ]

LogCounter_filter_veto(self, record) ==
    [ self |-> IF record.levelno >= ERROR
               THEN [self EXCEPT !.error_count = @ + 1]
               ELSE IF record.levelno >= WARNING
               THEN [self EXCEPT !.warning_count = @ + 1]
               ELSE self,
      rv |-> record.levelno >= WARNING ]

\* LogCounter.filter(record): the counter afterwards and the value returned.
LogCounter_filter(self, record) ==
    [ self |-> IF record.levelno >= ERROR
               THEN [self EXCEPT !.error_count = @ + 1]
               ELSE IF record.levelno >= WARNING
               THEN [self EXCEPT !.warning_count = @ + 1]
               ELSE self,
      rv |-> TRUE ]

\* The levels of the logging calls of the model: DEBUG, INFO, WARNING, ERROR
\* and CRITICAL.
Levels == {10, 20, WARNING, ERROR, CRITICAL}
Loggers == {"tornado.access", "tornado.application"}

\* The asynchronous operations in flight on the event loop.
Operations == {"fetch", "timeout"}

\* The logging calls of one session of the model.
MaxRecords == 3

\* Logger.isEnabledFor(levelno) of logger name: only "tornado.access" has a
\* level of its own.
IsEnabledFor(name, levelno) ==
    IF name = "tornado.access" THEN levelno >= access_level ELSE TRUE

RECURSIVE SumCalls(_)
SumCalls(ops) ==
    IF ops = {} THEN 0
    ELSE LET op == CHOOSE o \in ops : TRUE IN inflight[op] + SumCalls(ops \ {op})


-----------------------------------------------------------------------------
(* The test session: all() (lines 22-36), tornado.testing.main (lines      *)
(* 178-190) and TornadoTextTestRunner.run (lines 39-51).                   *)

TEST_MODULES ==
    << "tortik_tests.pep8_test", "tortik_tests.import_test", "tortik_tests.debug_test",
       "tortik_tests.dumper_test", "tortik_tests.exceptions_test",
       "tortik_tests.make_request_test", "tortik_tests.util_test",
       "tortik_tests.postprocessor_test", "tortik_tests.preprocessor_test" >>

\* The model loads the first MaxModules names of TEST_MODULES, and at most
\* MaxCases test cases in all.
MaxModules == 2
MaxCases == 3

Names == SubSeq(TEST_MODULES, 1, IF MaxModules < Len(TEST_MODULES)
                                 THEN MaxModules ELSE Len(TEST_MODULES))
NameSet == {Names[i] : i \in 1..Len(Names)}

\* kwargs["warnings"] of lines 180-187, as the runner receives it: False on
\* Python 3.2 and later; earlier runners have no such argument and never
\* touch the filters.
\* What unittest.main passes when line 187 is left out.
RunnerWarningsDefault == "default"

RunnerWarnings == "False"

\* The test cases loadTestsFromName makes of one name that resolves to a
\* module with n test cases.
CasesOf(name, n) == [k \in 1..n |-> [module |-> name, case |-> k, synthetic |-> FALSE]]

\* The test case the loader of Python 3.5 and later makes of a name that
\* does not resolve: it raises the import error when it is run.
FailedTest(name) == [module |-> name, case |-> 0, synthetic |-> TRUE]

NewResult == [errors |-> <<>>, failures |-> <<>>, skipped |-> <<>>, testsRun |-> 0]

\* TestResult.wasSuccessful()
WasSuccessful(r) == r.errors = <<>> /\ r.failures = <<>>

SkipReasons == {"no network", "pycurl not installed", "Twisted missing"}

\* What a test case does when it runs: it may issue one warning, and then it
\* returns, fails an assertion or skips itself.
NoWarning == [category |-> "none", module |-> "", message |-> ""]
TestEvents ==
    { [category |-> "DeprecationWarning", module |-> "tornado.gen",
       message |-> "gen.Task is deprecated"],
      [category |-> "DeprecationWarning", module |-> "tornado.web",
       message |-> "get_argument is deprecated"],
      [category |-> "UserWarning", module |-> "tortik.page", message |-> "unclosed file"],
      [category |-> "BytesWarning", module |-> "twisted.internet",
       message |-> "str on a bytes instance"] }
Endings == {[kind |-> "ok", reason |-> ""], [kind |-> "fail", reason |-> ""]}
               \cup {[kind |-> "skip", reason |-> r] : r \in SkipReasons}
Behaviours == [warning : TestEvents \cup {NoWarning}, ending : Endings]
PassingBehaviours == {[warning |-> NoWarning, ending |-> [kind |-> "ok", reason |-> ""]]}

\* The outcome of one test case that issued a warning with action act and
\* then ended with ending: the "error" action raises the warning in the test.
Outcome(act, ending) == IF act = "error" THEN "error" ELSE ending.kind

\* TestResult after test case c ended with outcome o.
Record(r, c, o, reason) ==
    [ errors |-> IF o = "error" THEN Append(r.errors, c) ELSE r.errors,
      failures |-> IF o = "fail" THEN Append(r.failures, c) ELSE r.failures,
      skipped |-> IF o = "skip" THEN Append(r.skipped, <<c, reason>>) ELSE r.skipped,
      testsRun |-> r.testsRun + 1 ]

\* a < b for two str: the order of the code points, a proper prefix first.
RECURSIVE StrLess(_, _)
StrLess(a, b) ==
    IF b = "" THEN FALSE
    ELSE IF a = "" THEN TRUE
    ELSE IF Chr(a, 1) = Chr(b, 1)
         THEN StrLess(SubSeq(a, 2, Len(a)), SubSeq(b, 2, Len(b)))
         ELSE Ord(Chr(a, 1)) < Ord(Chr(b, 1))

\* set(reason for (test, reason) in result.skipped)
ReasonSet(skipped) == {skipped[i][2] : i \in 1..Len(skipped)}

\* sorted(S) of a set of str.
RECURSIVE Sorted(_)
Sorted(S) ==
    IF S = {} THEN <<>>
    ELSE LET least == CHOOSE x \in S : \A y \in S \ {x} : StrLess(x, y)
         IN <<least>> \o Sorted(S \ {least})

\* sep.join(xs)
RECURSIVE Join(_, _)
Join(xs, sep) ==
    IF xs = <<>> THEN ""
    ELSE IF Len(xs) = 1 THEN xs[1]
    ELSE xs[1] \o sep \o Join(Tail(xs), sep)

\* text.split(" ") for a text of words with one space between them.
RECURSIVE Words(_, _)
Words(text, word) ==
    IF text = "" THEN <<word>>
    ELSE IF Chr(text, 1) = " " THEN <<word>> \o Words(SubSeq(text, 2, Len(text)), "")
    ELSE Words(SubSeq(text, 2, Len(text)), word \o Chr(text, 1))

\* textwrap's default width
FillWidth == 70

\* textwrap.fill(text) for a text of words no longer than the width with one
\* space between them: a word goes on the current line while the line stays
\* within the width, the lines are joined by newlines.
RECURSIVE Wrap(_, _)
Wrap(words, line) ==
    IF words = <<>> THEN line
    ELSE IF line = "" THEN Wrap(Tail(words), Head(words))
    ELSE IF Len(line) + 1 + Len(Head(words)) <= FillWidth
         THEN Wrap(Tail(words), line \o " " \o Head(words))
         ELSE line \o "\n" \o Wrap(Tail(words), Head(words))

Fill(text) == Wrap(Words(text, ""), "")

\* The reasons once each in the order of their first skip: no sorted().
RECURSIVE FirstSeen(_, _)
FirstSeen(skipped, seen) ==
    IF skipped = <<>> THEN <<>>
    ELSE IF Head(skipped)[2] \in seen THEN FirstSeen(Tail(skipped), seen)
    ELSE <<Head(skipped)[2]>> \o FirstSeen(Tail(skipped), seen \cup {Head(skipped)[2]})

SkipReasonsOf_unsorted(skipped) == FirstSeen(skipped, {})

\* sorted(skip_reasons), the argument of join in line 47.
SkipReasonsOf(skipped) == Sorted(ReasonSet(skipped))

\* The digest of lines 43-49, for a result with skipped test cases.
Digest(skipped) ==
    Fill("Some tests were skipped because: " \o Join(SkipReasonsOf(skipped), ", "))


-----------------------------------------------------------------------------
(* main(), step by step.                                                   *)

NoneIssued == [event |-> NoWarning, action |-> "none"]

RulesInstalled == Len(registered) - Len(InterpreterFilters)

\* warnings.filterwarnings(...): the next call of lines 79-129.
FilterWarnings ==
    /\ pc = "filters"
    /\ RulesInstalled < Len(RULES)
    /\ LET rule == RULES[RulesInstalled + 1]
       IN /\ filters' = AddFilter(filters, rule)
          /\ registered' = Append(registered, rule)
    /\ lastWarning' = NoneIssued
    /\ pc' = IF RulesInstalled + 1 = Len(RULES) THEN "setLevel" ELSE "filters"
    /\ UNCHANGED <<error, optionVars, logVars, sessionVars>>

\* logging.getLogger("tornado.access").setLevel(logging.CRITICAL), line 131.
SetLevel ==
    /\ pc = "setLevel"
    /\ access_level' = CRITICAL
    /\ pc' = "define"
    /\ UNCHANGED <<error, policyVars, optionVars, handler_filters, log_counter,
                   emitted, delivered, inflight, sessionVars>>

\* define(...): the next call of lines 133-160.
Define ==
    /\ pc = "define"
    /\ Len(defined) < Len(OPTIONS)
    /\ LET opt == OPTIONS[Len(defined) + 1]
       IN /\ defined' = Append(defined, opt)
          /\ options' = options @@ (opt.name :> opt.default)
    /\ pc' = IF Len(defined) + 1 = Len(OPTIONS) THEN "add_configure_ioloop" ELSE "define"
    /\ UNCHANGED <<error, policyVars, parse_callbacks, argv, argv0, fired, ioloop_conf,
                   monotonic_time, logVars, sessionVars>>

\* add_parse_callback(configure_ioloop), line 173.
AddConfigureIoloop ==
    /\ pc = "add_configure_ioloop"
    /\ parse_callbacks' = Append(parse_callbacks, PARSE_CALLBACKS[1])
    /\ pc' = "LogCounter"
    /\ UNCHANGED <<error, policyVars, defined, argv, argv0, options, fired, ioloop_conf,
                   monotonic_time, logVars, sessionVars>>

\* log_counter = LogCounter(), line 175.
ConstructLogCounter ==
    /\ pc = "LogCounter"
    /\ log_counter' = NewLogCounter
    /\ pc' = "add_addFilter"
    /\ UNCHANGED <<error, policyVars, optionVars, access_level, handler_filters,
                   emitted, delivered, inflight, sessionVars>>

\* add_parse_callback(lambda: ...addFilter(log_counter)), line 176.
AddAddFilter ==
    /\ pc = "add_addFilter"
    /\ parse_callbacks' = Append(parse_callbacks, PARSE_CALLBACKS[2])
    /\ pc' = "testing_main"
    /\ UNCHANGED <<error, policyVars, defined, argv, argv0, options, fired, ioloop_conf,
                   monotonic_time, logVars, sessionVars>>

\* tornado.testing.main(**kwargs), line 190, reads the command line.
TestingMain ==
    /\ pc = "testing_main"
    /\ \E line \in CommandLines : argv' = line /\ argv0' = line
    /\ pc' = "parse"
    /\ UNCHANGED <<error, policyVars, defined, parse_callbacks, options, fired,
                   ioloop_conf, monotonic_time, logVars, sessionVars>>

\* parse_command_line: the next argument sets its option, and the option's
\* callback, if it has one, runs at once with the value.
ParseArg ==
    /\ pc = "parse"
    /\ argv # <<>>
    /\ LET arg == Head(argv)
           opt == defined[OptionOf(arg.name)]
       IN /\ options' = [options EXCEPT ![arg.name] = arg.value]
          /\ fired' = IF opt.callback = None THEN fired
                      ELSE Append(fired, [callback |-> opt.callback, kind |-> "option",
                                          pending |-> Len(argv) - 1,
                                          monotonic |-> options["ioloop_time_monotonic"]])
    /\ argv' = Tail(argv)
    /\ UNCHANGED <<pc, error, policyVars, defined, parse_callbacks, argv0, ioloop_conf,
                   monotonic_time, logVars, sessionVars>>

ParseCallbacksRun == Len(SelectSeq(fired, LAMBDA f : f.kind = "parse"))

\* run_parse_callbacks, once every argument is parsed: the next parse
\* callback, in the order of registration.
RunParseCallback ==
    /\ pc = "parse"
    /\ argv = <<>>
    /\ ParseCallbacksRun < Len(parse_callbacks)
    /\ LET cb == parse_callbacks[ParseCallbacksRun + 1]
           entry == [callback |-> cb, kind |-> "parse", pending |-> Len(argv),
                     monotonic |-> options["ioloop_time_monotonic"]]
           last == ParseCallbacksRun + 1 = Len(parse_callbacks)
       IN /\ fired' = Append(fired, entry)
          /\ IF cb = "configure_ioloop"
             THEN LET r == configure_ioloop(options, monotonic_time, ioloop_conf)
                  IN /\ ioloop_conf' = r.conf
                     /\ pc' = IF r.raised THEN "crashed" ELSE IF last THEN "load" ELSE "parse"
                     /\ error' = IF r.raised THEN "RuntimeError" ELSE error
                     /\ UNCHANGED handler_filters
             ELSE /\ handler_filters' = Append(handler_filters, "log_counter")
                  /\ pc' = IF last THEN "load" ELSE "parse"
                  /\ UNCHANGED <<error, ioloop_conf>>
    /\ UNCHANGED <<policyVars, defined, parse_callbacks, argv, argv0, options,
                   monotonic_time, access_level, log_counter, emitted, delivered,
                   inflight, sessionVars>>

-----------------------------------------------------------------------------
(* The session.                                                            *)

RealCases(cases) == Len(SelectSeq(cases, LAMBDA c : ~c.synthetic))

\* A loader that passes over a name that does not resolve.
LoadName_skip(sizes) ==
    /\ pc = "load"
    /\ loaded < Len(Names)
    /\ LET name == Names[loaded + 1] IN
       IF name \in resolves
       THEN \E k \in sizes :
               /\ RealCases(suite) + k <= MaxCases
               /\ suite' = suite \o CasesOf(name, k)
       ELSE UNCHANGED suite
    /\ loaded' = loaded + 1
    /\ UNCHANGED <<pc, error, policyVars, optionVars, logVars, loader, resolves, ran,
                   result, stream>>

\* all(): loadTestsFromNames takes the next name of TEST_MODULES; a name
\* that resolves gives the test cases of its module, k of them.  A name that
\* does not resolve raises in the loader, or with the loader of Python 3.5
\* and later becomes a test case that fails when it is run.
LoadName(sizes) ==
    /\ pc = "load"
    /\ loaded < Len(Names)
    /\ LET name == Names[loaded + 1] IN
       IF name \in resolves
       THEN /\ \E k \in sizes :
                  /\ RealCases(suite) + k <= MaxCases
                  /\ suite' = suite \o CasesOf(name, k)
            /\ loaded' = loaded + 1
            /\ UNCHANGED <<pc, error>>
       ELSE IF loader = "raise"
       THEN /\ pc' = "crashed"
            /\ error' = "ImportError"
            /\ UNCHANGED <<loaded, suite>>
       ELSE /\ suite' = Append(suite, FailedTest(name))
            /\ loaded' = loaded + 1
            /\ UNCHANGED <<pc, error>>
    /\ UNCHANGED <<policyVars, optionVars, logVars, loader, resolves, ran, result, stream>>

\* TornadoTextTestRunner.run, line 41: TextTestRunner.run starts; a runner
\* given a warnings argument other than False installs it as a filter.
StartRun ==
    /\ pc = "load"
    /\ loaded = Len(Names)
    /\ filters' = IF RunnerWarnings = "False" THEN filters
                  ELSE AddFilter(filters, Rule(RunnerWarnings, "", "Warning", ""))
    /\ result' = NewResult
    /\ pc' = "run"
    /\ UNCHANGED <<error, registered, lastWarning, optionVars, logVars, loader, resolves,
                   loaded, suite, ran, stream>>

\* The action that decides a warning under the rules as they were
\* registered: that of the rule registered last among those that match.
PolicyAction(rules, e) ==
    LET hits == {i \in 1..Len(rules) : Matches(rules[i], e)}
    IN IF hits = {} THEN DefaultAction
       ELSE rules[CHOOSE i \in hits : \A j \in hits : j <= i].action

\* The next test case of the suite runs, behaving as b.
RunTest(b) ==
    /\ pc = "run"
    /\ Len(ran) < Len(suite)
    /\ LET c == suite[Len(ran) + 1]
           act == IF b.warning = NoWarning THEN "none" ELSE Classify(filters, b.warning)
           o == IF c.synthetic THEN "error" ELSE Outcome(act, b.ending)
           escalated == /\ ~c.synthetic
                        /\ b.warning # NoWarning
                        /\ PolicyAction(registered, b.warning) = "error"
       IN /\ result' = Record(result, Len(ran) + 1, o, b.ending.reason)
          /\ ran' = Append(ran, [escalated |-> escalated, outcome |-> o,
                                 ending |-> IF o = "error" THEN "none" ELSE b.ending.kind])
    /\ UNCHANGED <<pc, error, policyVars, optionVars, logVars, loader, resolves, loaded,
                   suite, stream>>

\* TextTestRunner.run returns, having written the standard summary.
FinishRun ==
    /\ pc = "run"
    /\ Len(ran) = Len(suite)
    /\ stream' = Append(stream, IF WasSuccessful(result) THEN "OK\n" ELSE "FAILED\n")
    /\ pc' = "report"
    /\ UNCHANGED <<error, policyVars, optionVars, logVars, loader, resolves, loaded, suite,
                   ran, result>>

\* TornadoTextTestRunner.run, lines 42-51.
Report ==
    /\ pc = "report"
    /\ stream' = IF result.skipped # <<>>
                 THEN stream \o <<Digest(result.skipped), "\n">>
                 ELSE stream
    /\ pc' = "done"
    /\ UNCHANGED <<error, policyVars, optionVars, logVars, loader, resolves, loaded, suite,
                   ran, result>>

-----------------------------------------------------------------------------
(* Warnings and log records.                                               *)

\* warnings.warn: event e is decided by the filter list as it is.
Warn(e) ==
    /\ lastWarning' = [event |-> e, action |-> Classify(filters, e)]
    /\ UNCHANGED <<pc, error, filters, registered, optionVars, logVars, sessionVars>>

\* Handler.handle(record) of the root logger's first handler: the record is
\* written when every filter of the handler returns true.
Handle(record) ==
    IF handler_filters = <<>>
    THEN /\ delivered' = Append(delivered, record)
         /\ UNCHANGED log_counter
    ELSE LET r == LogCounter_filter(log_counter, record)
         IN /\ log_counter' = r.self
            /\ delivered' = IF r.rv THEN Append(delivered, record) ELSE delivered

\* Operation op, between two of its suspension points, logs to logger name
\* at level levelno.  The call runs to its end before the event loop gives
\* control to another operation.
Log(op, name, levelno) ==
    /\ pc = "run"
    /\ SumCalls(Operations) < MaxRecords
    /\ inflight' = [inflight EXCEPT ![op] = @ + 1]
    /\ IF IsEnabledFor(name, levelno)
       THEN LET record == [name |-> name, levelno |-> levelno, op |-> op]
            IN /\ emitted' = Append(emitted, record)
               /\ Handle(record)
       ELSE UNCHANGED <<emitted, delivered, log_counter>>
    /\ UNCHANGED <<pc, error, policyVars, optionVars, access_level, handler_filters,
                   sessionVars>>

-----------------------------------------------------------------------------
(* The specifications.                                                     *)

NoFunction == [x \in {} |-> x]

\* The process as main() finds it.
Init ==
    /\ pc = "filters"
    /\ error = "none"
    /\ filters = InterpreterFilters
    /\ registered = InterpreterFilters
    /\ lastWarning = NoneIssued
    /\ access_level = 0
    /\ defined = <<>>
    /\ parse_callbacks = <<>>
    /\ argv = <<>>
    /\ argv0 = <<>>
    /\ options = NoFunction
    /\ fired = <<>>
    /\ ioloop_conf = Unconfigured
    /\ monotonic_time \in {"monotonic", None}
    /\ handler_filters = <<>>
    /\ log_counter = NewLogCounter
    /\ emitted = <<>>
    /\ delivered = <<>>
    /\ inflight = [op \in Operations |-> 0]
    /\ loader \in {"raise", "synthetic"}
    /\ resolves = NameSet
    /\ loaded = 0
    /\ suite = <<>>
    /\ ran = <<>>
    /\ result = NewResult
    /\ stream = <<>>

Next ==
    \/ FilterWarnings
    \/ SetLevel
    \/ Define
    \/ AddConfigureIoloop
    \/ ConstructLogCounter
    \/ AddAddFilter
    \/ TestingMain
    \/ ParseArg
    \/ RunParseCallback
    \/ LoadName({1})
    \/ StartRun
    \/ \E b \in PassingBehaviours : RunTest(b)
    \/ FinishRun
    \/ Report

Spec == Init /\ [][Next]_vars

\* The warning filters alone: warnings may be issued from the first line on.
PolicyNext ==
    \/ FilterWarnings
    \/ \E e \in Events : Warn(e)

PolicyInit == Init /\ monotonic_time = None /\ loader = "raise"

SpecPolicy == PolicyInit /\ [][PolicyNext]_vars

\* The process when main() has set it up from an empty command line.
SetUp ==
    /\ error = "none"
    /\ filters = InstalledFilters
    /\ registered = InterpreterFilters \o RULES
    /\ lastWarning = NoneIssued
    /\ access_level = CRITICAL
    /\ defined = OPTIONS
    /\ parse_callbacks = PARSE_CALLBACKS
    /\ argv = <<>>
    /\ argv0 = <<>>
    /\ options = DefaultOptions
    /\ fired = [i \in 1..Len(PARSE_CALLBACKS) |->
                  [callback |-> PARSE_CALLBACKS[i], kind |-> "parse", pending |-> 0,
                   monotonic |-> FALSE]]
    /\ ioloop_conf = Unconfigured
    /\ monotonic_time \in {"monotonic", None}
    /\ handler_filters = <<"log_counter">>
    /\ log_counter = NewLogCounter
    /\ emitted = <<>>
    /\ delivered = <<>>
    /\ inflight = [op \in Operations |-> 0]
    /\ loaded = 0
    /\ suite = <<>>
    /\ ran = <<>>
    /\ result = NewResult
    /\ stream = <<>>

SessionInit ==
    /\ SetUp
    /\ pc = "load"
    /\ monotonic_time = None
    /\ loader \in {"raise", "synthetic"}
    /\ resolves \in SUBSET NameSet

\* The test cases a module of the model may have.
ModuleSizes == {1, 2}

SessionNext ==
    \/ LoadName(ModuleSizes)
    \/ StartRun
    \/ \E b \in Behaviours : RunTest(b)
    \/ FinishRun
    \/ Report

SpecSession == SessionInit /\ [][SessionNext]_vars

\* The session in progress: the operations in flight log as they run.
LogInit ==
    /\ SetUp
    /\ pc = "run"
    /\ monotonic_time = None
    /\ loader = "raise"
    /\ resolves = NameSet

LogNext == \E op \in Operations, name \in Loggers, levelno \in Levels : Log(op, name, levelno)

SpecLog == LogInit /\ [][LogNext]_vars


-----------------------------------------------------------------------------
(* The properties.                                                         *)

StartsWith(s, prefix) == Len(s) >= Len(prefix) /\ SubSeq(s, 1, Len(prefix)) = prefix

\* C1: a warning event gets the action of the rule registered last among the
\* rules whose category, module pattern and message pattern match it, and the
\* default action when no rule matches; once main() has registered its
\* rules, a BytesWarning from a module under twisted. is ignored, and a
\* BytesWarning from any other module is an error.
C1_LastRegisteredMatchWins ==
    lastWarning.event # NoWarning =>
        /\ lastWarning.action = PolicyAction(registered, lastWarning.event)
        /\ (RulesInstalled = Len(RULES) /\ lastWarning.event.category = "BytesWarning") =>
              lastWarning.action = IF StartsWith(lastWarning.event.module, "twisted.")
                                   THEN "ignore" ELSE "error"

C1_Witness ==
    /\ RulesInstalled = Len(RULES)
    /\ lastWarning.event.category = "BytesWarning"
    /\ lastWarning.event.module = "twisted.internet"
    /\ lastWarning.action = "ignore"

AtOrAbove(records, levelno) == {i \in 1..Len(records) : records[i].levelno >= levelno}

\* C2: whatever the order in which the operations in flight log, the two
\* counts of the LogCounter add up to the number of records of level WARNING
\* or higher created in the session.
C2_CountsEveryRecordOnce ==
    log_counter.warning_count + log_counter.error_count
        = Cardinality(AtOrAbove(emitted, WARNING))

C2_Witness ==
    /\ Len(emitted) = 3
    /\ emitted[1].op # emitted[2].op
    /\ emitted[2].op # emitted[3].op
    /\ \A i \in 1..3 : emitted[i].levelno >= WARNING
    /\ log_counter.warning_count + log_counter.error_count = 3

\* C3: both counts start at 0; a call of LogCounter.filter adds 1 to
\* error_count alone for a record of level ERROR or higher, 1 to
\* warning_count alone for a record of level WARNING up to ERROR, and nothing
\* for a record below WARNING; no step makes a count smaller.
C3_FilterStep ==
    /\ log_counter.warning_count = 0 /\ log_counter.error_count = 0
    /\ [][ /\ log_counter'.warning_count >= log_counter.warning_count
           /\ log_counter'.error_count >= log_counter.error_count
           /\ emitted' # emitted =>
                LET levelno == emitted'[Len(emitted')].levelno
                    dw == log_counter'.warning_count - log_counter.warning_count
                    de == log_counter'.error_count - log_counter.error_count
                IN IF levelno >= ERROR THEN de = 1 /\ dw = 0
                   ELSE IF levelno >= WARNING THEN dw = 1 /\ de = 0
                   ELSE dw = 0 /\ de = 0
           /\ emitted' = emitted => log_counter' = log_counter ]_vars

C3_Witness ==
    /\ log_counter.warning_count = 1
    /\ log_counter.error_count = 1
    /\ Len(emitted) = 3
    /\ \E i \in 1..3 : emitted[i].levelno < WARNING

\* C10: the LogCounter vetoes no record and changes none: the handler writes
\* the records created, all of them, in the order of their creation.
C10_DeliversEveryRecord == delivered = emitted

C10_Witness ==
    /\ Len(delivered) = 3
    /\ \E i \in 1..3 : delivered[i].levelno < WARNING
    /\ \E i \in 1..3 : delivered[i].levelno >= ERROR
    /\ log_counter.error_count >= 1


\* The text with each newline turned back into a space.
RECURSIVE Unwrap(_)
Unwrap(text) ==
    IF text = "" THEN ""
    ELSE (IF Chr(text, 1) = "\n" THEN " " ELSE Chr(text, 1))
             \o Unwrap(SubSeq(text, 2, Len(text)))

\* The ways to list the members of S once each.
Listings(S) ==
    {f \in [1..Cardinality(S) -> S] : \A i, j \in 1..Cardinality(S) : f[i] = f[j] => i = j}

Ascending(xs) == \A i \in 1..(Len(xs) - 1) : StrLess(xs[i], xs[i + 1])

\* C4: run writes the digest of skip reasons if and only if the result has a
\* skipped test case; the digest lists every reason of a skipped case once,
\* however many cases of however many modules share it, in ascending
\* lexicographic order; with no skipped case the stream holds the summary
\* and nothing more.
C4_Digest ==
    /\ pc # "done" => Len(stream) <= 1
    /\ pc = "done" =>
          IF result.skipped = <<>> THEN Len(stream) = 1
          ELSE /\ Len(stream) = 3
               /\ stream[3] = "\n"
               /\ \E reasons \in Listings(ReasonSet(result.skipped)) :
                     /\ Ascending(reasons)
                     /\ Unwrap(stream[2]) =
                           "Some tests were skipped because: " \o Join(reasons, ", ")

C4_Witness ==
    /\ pc = "done"
    /\ Len(result.skipped) = 3
    /\ \E i, j \in 1..3 :
          /\ suite[result.skipped[i][1]].module # suite[result.skipped[j][1]].module
          /\ result.skipped[i][2] = "no network"
          /\ result.skipped[j][2] = "no network"
    /\ \E i \in 1..3 : result.skipped[i][2] = "Twisted missing"
    /\ Len(stream) = 3

Unresolved == NameSet \ resolves

Executed == {i \in 1..Len(ran) : ~suite[i].synthetic}

\* C5 as stated: a name of TEST_MODULES that does not resolve stops the
\* session before it starts, and no test case of any module is executed.
C5_FatalLoadError ==
    Unresolved # {} => Executed = {} /\ pc \in {"load", "crashed"}

\* C5 amended: with a name of TEST_MODULES that does not resolve the run
\* cannot succeed.  When the loader raises on such a name (Python before
\* 3.5) the load is fatal and no test case is executed.  When the loader
\* makes a failing test case of the name (Python 3.5 and later) the session
\* runs: that case is recorded as an error, and every test case of the
\* modules that do resolve, listed before or after the name, is executed.
C5_LoadErrorNeverSucceeds ==
    Unresolved # {} =>
        IF loader = "raise"
        THEN Executed = {} /\ pc \in {"load", "crashed"}
        ELSE /\ pc # "crashed"
             /\ pc \in {"report", "done"} =>
                   /\ ~WasSuccessful(result)
                   /\ Len(ran) = Len(suite)
                   /\ \A name \in Unresolved : \E i \in 1..Len(suite) :
                         /\ suite[i] = FailedTest(name)
                         /\ \E k \in 1..Len(result.errors) : result.errors[k] = i
                   /\ \A i \in 1..Len(suite) : ~suite[i].synthetic => i \in Executed

C5_Witness ==
    /\ pc = "done"
    /\ loader = "synthetic"
    /\ Names[1] \in resolves
    /\ Names[2] \notin resolves
    /\ 1 \in Executed
    /\ ran[1].outcome = "ok"
    /\ ~WasSuccessful(result)

InSeq(x, xs) == \E k \in 1..Len(xs) : xs[k] = x

\* C7: a test case in which a warning is issued that the rules make an error
\* is recorded as an error of that test case, and the session goes on: a test
\* case with no such warning that returns normally is recorded as neither
\* error, failure nor skip, and every test case of the suite is run.
C7_EscalationFailsOneTest ==
    /\ \A i \in 1..Len(ran) :
          /\ ran[i].escalated => InSeq(i, result.errors)
          /\ (~ran[i].escalated /\ ran[i].ending = "ok") =>
                /\ ~InSeq(i, result.errors)
                /\ ~InSeq(i, result.failures)
                /\ \A k \in 1..Len(result.skipped) : result.skipped[k][1] # i
    /\ result.testsRun = Len(ran)
    /\ pc \in {"report", "done"} => Len(ran) = Len(suite)

C7_Witness ==
    /\ pc = "done"
    /\ Len(ran) = 3
    /\ ran[2].escalated
    /\ InSeq(2, result.errors)
    /\ ran[1].ending = "ok" /\ ~InSeq(1, result.errors)
    /\ ran[3].ending = "ok" /\ ~InSeq(3, result.errors)


\* The value the command line gives option name: that of the last argument
\* that names it, the default when none does.
FinalValue(line, name) ==
    LET at == {i \in 1..Len(line) : line[i].name = name}
    IN IF at = {} THEN OPTIONS[OptionOfName(name)].default
       ELSE line[CHOOSE i \in at : \A j \in at : j <= i].value

CommandLineRead == pc \in {"parse", "crashed", "load", "run", "report", "done"}

HasRun(callback) == \E i \in 1..Len(fired) : fired[i].callback = callback

\* C6: when the command line sets ioloop_time_monotonic to true and the
\* platform has no monotonic clock, configure_ioloop raises, IOLoop.configure
\* is not called, and no test case is executed, before or after.
C6_NoMonotonicClockIsFatal ==
    ( /\ CommandLineRead
      /\ FinalValue(argv0, "ioloop_time_monotonic")
      /\ monotonic_time = None ) =>
        /\ ~ioloop_conf.configured
        /\ ran = <<>> /\ suite = <<>> /\ result.testsRun = 0
        /\ pc \in {"parse", "crashed"}
        /\ HasRun("configure_ioloop") =>
              pc = "crashed" /\ error = "RuntimeError" /\ ~HasRun("addFilter(log_counter)")
        /\ pc = "parse" => ~HasRun("configure_ioloop")

C6_Witness ==
    /\ pc = "crashed"
    /\ error = "RuntimeError"
    /\ Len(argv0) = 2
    /\ argv0[1].name = "ioloop_time_monotonic" /\ argv0[1].value
    /\ argv0[2].name = "ioloop"
    /\ monotonic_time = None
    /\ ~ioloop_conf.configured

TestsStarted == pc \in {"run", "report", "done"}

\* C8 as stated: the callbacks of the options run first, then the warning
\* filters are installed, then the LogCounter is attached, then the tests run.
C8_CallbacksBeforeFilters ==
    /\ RulesInstalled > 0 => HasRun("configure_ioloop")
    /\ handler_filters # <<>> => RulesInstalled = Len(RULES)
    /\ TestsStarted => handler_filters # <<>> /\ filters = InstalledFilters

\* C8 amended: the warning filters are installed first, all of them; then the
\* command line is parsed and the callbacks of the options run; then the
\* LogCounter is attached, by the last parse callback; then the tests run.
\* From the first test case on the filter list is the one main() installed.
C8_FiltersBeforeCallbacks ==
    /\ (fired # <<>> \/ CommandLineRead) => RulesInstalled = Len(RULES)
    /\ handler_filters # <<>> =>
          /\ argv = <<>>
          /\ HasRun("configure_ioloop")
          /\ fired[Len(fired)].callback = "addFilter(log_counter)"
    /\ (pc = "load" \/ TestsStarted) =>
          /\ handler_filters = <<"log_counter">>
          /\ filters = InstalledFilters

C8_Witness ==
    /\ pc = "run"
    /\ Len(ran) = 1
    /\ Len(fired) = 4
    /\ fired[1].kind = "option" /\ fired[2].kind = "option"
    /\ fired[3].callback = "configure_ioloop"
    /\ fired[4].callback = "addFilter(log_counter)"
    /\ filters = InstalledFilters

\* The place of a callback in the order of registration: the callbacks of
\* the options in the order of the define calls, the parse callbacks after.
Registration(callback) ==
    IF \E i \in 1..Len(OPTIONS) : OPTIONS[i].callback = callback
    THEN CHOOSE i \in 1..Len(OPTIONS) : OPTIONS[i].callback = callback
    ELSE Len(OPTIONS) + (CHOOSE i \in 1..Len(PARSE_CALLBACKS) : PARSE_CALLBACKS[i] = callback)

\* C9 as stated: every callback runs when no argument is left to parse, and
\* the callbacks run in the order of their registration.
C9_AllCallbacksAfterParsing ==
    /\ \A i \in 1..Len(fired) : fired[i].pending = 0
    /\ \A i, j \in 1..Len(fired) :
          i < j => Registration(fired[i].callback) <= Registration(fired[j].callback)

ParseEntries == SelectSeq(fired, LAMBDA f : f.kind = "parse")

\* What configure_ioloop leaves behind for a command line.
ExpectedIoloop(line) ==
    IF FinalValue(line, "ioloop_time_monotonic")
    THEN [configured |-> TRUE, impl |-> FinalValue(line, "ioloop"),
          time_func |-> monotonic_time]
    ELSE IF FinalValue(line, "ioloop") # None
    THEN [configured |-> TRUE, impl |-> FinalValue(line, "ioloop"), time_func |-> "default"]
    ELSE Unconfigured

\* C9 amended: the callback of an option runs as its argument is parsed, in
\* the order of the command line; the parse callbacks (configure_ioloop, then
\* the attachment of the LogCounter) run in the order of their registration
\* and only when every argument is parsed.  So, in whatever order the flags
\* are given, configure_ioloop runs with the final values of
\* ioloop_time_monotonic and ioloop and configures the event loop from them.
C9_ParseCallbacksAfterParsing ==
    /\ \A i \in 1..Len(fired) :
          IF fired[i].kind = "parse"
          THEN /\ fired[i].pending = 0
               /\ fired[i].monotonic = FinalValue(argv0, "ioloop_time_monotonic")
          ELSE /\ fired[i].pending < Len(argv0)
               /\ fired[i].callback =
                     OPTIONS[OptionOfName(argv0[Len(argv0) - fired[i].pending].name)].callback
               /\ \A j \in 1..Len(fired) :
                     (i < j /\ fired[j].kind = "option") => fired[j].pending < fired[i].pending
    /\ \A i, j \in 1..Len(fired) :
          (i < j /\ fired[i].kind = "parse") => fired[j].kind = "parse"
    /\ ParseEntries = [i \in 1..Len(ParseEntries) |->
                          [callback |-> PARSE_CALLBACKS[i], kind |-> "parse", pending |-> 0,
                           monotonic |-> FinalValue(argv0, "ioloop_time_monotonic")]]
    /\ (HasRun("configure_ioloop") /\ pc # "crashed") => ioloop_conf = ExpectedIoloop(argv0)
    /\ ~HasRun("configure_ioloop") => ioloop_conf = Unconfigured

C9_Witness ==
    /\ pc = "load"
    /\ Len(argv0) = 2
    /\ argv0[1].name = "ioloop"
    /\ argv0[2].name = "ioloop_time_monotonic" /\ argv0[2].value
    /\ ioloop_conf.configured
    /\ ioloop_conf.time_func = "monotonic"
    /\ ioloop_conf.impl = "EPollIOLoop"

=============================================================================
